---- MODULE Spec2Model ----
(***************************************************************************)
(* Local replica synchronisation of sencity_backend (scripts/sync_db.ps1,  *)
(* kept in two variants inside src/scripts/install_hooks.ps1: the first    *)
(* variant, lines 33-109, and the PowerShell 5.1 variant, lines 111-221).  *)
(*                                                                         *)
(* Text is a sequence of tokens, a token being a record [k, v, up]: a      *)
(* 64-hex digest ("hex", upper or lower case), a run of other visible      *)
(* characters ("word"), or one white-space character ("ws").  A file is a  *)
(* record [exists, data].  Every cmdlet is one step of the invocation that *)
(* runs it; an invocation can be killed between any two steps.             *)
(*                                                                         *)
(* Spec runs invocations one at a time, SpecConc runs two together,        *)
(* SpecParse runs one up to its verification on any checksum text, and     *)
(* SpecHooks runs the hook installers (lines 1-31, and README.md 47-67).   *)
(***************************************************************************)
EXTENDS Naturals, Integers, Sequences, FiniteSets, TLC

\* ------------------------------------------------------------------ bounds
\* Get-Date values 0..MaxClock (seconds, as formatted by yyyyMMdd-HHmmss).
MaxClock == 1
\* Checksum texts of up to MaxShaLen tokens.
MaxShaLen == 3
\* At most MaxInFlight automatic issue-token requests are in flight.
MaxInFlight == 2
\* One request through the shared axios instance is sent up to MaxSends times.
MaxSends == 3

\* ------------------------------------------------------------- vocabulary
Procs    == {1, 2}
Variants == {"first", "ps51"}
Tags     == {"v3", "v4"}

Word(s) == [k |-> "word", v |-> s, up |-> FALSE]
Ws(s)   == [k |-> "ws",   v |-> s, up |-> FALSE]
Hex(c, u) == [k |-> "hex", v |-> c, up |-> u]
SP  == Ws(" ")
NL  == Ws("\n")
TAB == Ws("\t")

File(d)  == [exists |-> TRUE, data |-> d]
NoFile   == [exists |-> FALSE, data |-> <<>>]
NoBlob   == [exists |-> FALSE, data |-> ""]
TestPath(f) == f.exists

\* Binary contents: the developer's own database, the primary asset of a
\* release, and a transfer of that asset cut short.
DevDb        == "dev"
Artifact(t)  == "db@" \o t
Truncated(t) == "db@" \o t \o "~cut"
OtherOf(t)   == IF t = "v3" THEN "v4" ELSE "v3"

\* ---------------------------------------------------------- pure helpers
IsWs(tok) == tok.k = "ws"

RECURSIVE TrimStart(_)
TrimStart(s) == IF s # <<>> /\ IsWs(Head(s)) THEN TrimStart(Tail(s)) ELSE s

RECURSIVE TrimEnd(_)
TrimEnd(s) ==
  IF s # <<>> /\ IsWs(s[Len(s)]) THEN TrimEnd(SubSeq(s, 1, Len(s) - 1)) ELSE s

\* String.Trim()
Trim(s) == TrimEnd(TrimStart(s))

\* String.ToLower()
ToLower(s) == [i \in 1..Len(s) |-> [s[i] EXCEPT !.up = FALSE]]

\* (Get-FileHash f -Algorithm SHA256).Hash : upper-case hex, one per content
GetFileHash(f) == <<Hex(f.data, TRUE)>>

\* Add-Content -Path f -Value v : v and a line end are added to the file
SetContent_Append(old, value) == File(old.data \o value \o <<NL>>)

\* Set-Content -Path f -Value v : the file is replaced by v and a line end
SetContent(old, value) == File(value \o <<NL>>)

\* Move-Item -Force src dst : the new dst
MoveItem(src, dst) == src

\* Copy-Item src dst : the new dst (an existing dst is overwritten)
CopyItem(src, dst) == src

\* ------------------------------------------------------- Remote Locator
\* A remote URL: host, the separator after it, owner, the last path segment
\* up to its first dot (repo) and the rest of the URL from there (suffix).
\* NoUrl: no remote.origin.url configured.
UrlS(h, sp, o, r, sfx) ==
  [host |-> h, sep |-> sp, owner |-> o, repo |-> r, suffix |-> sfx]
Url(h, o, r, sfx) == UrlS(h, "/", o, r, sfx)
NoUrl == UrlS("", "", "", "", "")

\* "github\.com[:/](?<owner>[^/]+)/(?<repo>[^/.]+)(\.git)?$"
ParseGitRemote(url) ==
  IF /\ url.host = "github.com"
     /\ url.sep \in {":", "/"}
     /\ url.owner # ""
     /\ url.repo # ""
     /\ url.suffix \in {"", ".git"}
  THEN <<url.owner, url.repo>>
  ELSE <<"", "">>

\* a locator that prefers the remote URL to the parameters
Locate_UrlFirst(k) ==
  IF ParseGitRemote(k.url) # <<"", "">>
  THEN ParseGitRemote(k.url)
  ELSE <<k.Owner, k.Repo>>

\* if (-not $Owner -or -not $Repo) { ... $Owner = $pair[0]; $Repo = $pair[1] }
Locate(k) ==
  IF k.Owner = "" \/ k.Repo = ""
  THEN ParseGitRemote(k.url)
  ELSE <<k.Owner, k.Repo>>

Configs ==
  { [Owner |-> "", Repo |-> "",
     url |-> Url("github.com", "yoona8030", "sencity_backend", ".git")],
    [Owner |-> "", Repo |-> "", url |-> NoUrl],
    [Owner |-> "", Repo |-> "",
     url |-> Url("gitlab.com", "yoona8030", "sencity_backend", ".git")],
    [Owner |-> "yoona8030", Repo |-> "", url |-> NoUrl] }

\* Any parameters and remote: -Owner and -Repo given or not, and a remote
\* on GitHub or elsewhere, https or scp style, with or without owner and
\* repository, the repository name plain or with a dot in it, followed by
\* nothing, ".git" or a slash.
UrlSuffixes == {"", ".git", ".js", ".js.git", "/"}

Urls ==
  { UrlS(h, sp, o, r, sfx) :
      h \in {"github.com", "gitlab.com"}, sp \in {":", "/"},
      o \in {"", "yoona8030"}, r \in {"", "sencity_backend"},
      sfx \in UrlSuffixes }
  \cup {NoUrl}

LocatorConfigs ==
  { [Owner |-> o, Repo |-> r, url |-> u] :
      o \in {"", "alice"}, r \in {"", "tool"}, u \in Urls }

\* ----------------------------------------------------- release store
\* A release descriptor: its tag, whether it publishes the primary asset
\* ($AssetName), and the shape of its checksum asset ($ShaAssetName).
ShaKinds == {"none", "named", "wrong"}

Releases ==
  { [tag |-> t, asset |-> TRUE, sha |-> k] : t \in Tags, k \in ShaKinds }
  \cup { [tag |-> "v4", asset |-> FALSE, sha |-> "none"] }

NoRelease == [tag |-> "", asset |-> FALSE, sha |-> "none"]

\* The text of the checksum asset a release publishes.
ShaText(r) ==
  CASE r.sha = "plain" -> <<Hex(Artifact(r.tag), FALSE), NL>>
    [] r.sha = "named" -> <<Hex(Artifact(r.tag), FALSE), SP,
                            Word("*db_release.sqlite3"), NL>>
    [] r.sha = "wrong" -> <<Hex(Artifact(OtherOf(r.tag)), FALSE), NL>>
    [] OTHER -> <<>>

\* Any text a checksum asset may hold: up to MaxShaLen tokens, each a digest
\* of one of the artifacts in either case, a blank, a tab, a line end or a
\* file name.
ShaAlphabet ==
  {Hex(Artifact(t), u) : t \in Tags, u \in BOOLEAN}
  \cup {SP, TAB, NL, Word("*db_release.sqlite3")}

ShaTexts == UNION {[1..n -> ShaAlphabet] : n \in 0..MaxShaLen}

\* $rel.tag_name as text
TagText(t) == <<Word(t)>>

\* --------------------------------------------------- Version Tracker
\* first : (Test-Path $versionFile) ? (Get-Content $versionFile -Raw) : ""
\* ps51  : "" unless Test-Path; then (Get-Content $versionFile -Raw).Trim()
ReadLocalTag(v, vf) ==
  IF ~TestPath(vf) THEN <<>>
  ELSE IF v = "ps51" THEN Trim(vf.data) ELSE vf.data

\* a check that takes "no local version" for "current"
ShouldSkip_AbsentIsCurrent(remoteTag, tag, db) ==
  (tag = <<>> \/ remoteTag = tag) /\ TestPath(db)

\* ($remoteTag -eq $localTag) -and (Test-Path $targetDb)
ShouldSkip(remoteTag, tag, db) == remoteTag = tag /\ TestPath(db)

\* ------------------------------------------------ Integrity Verifier
IsHex64(s) == Len(s) = 1 /\ s[1].k = "hex"

RECURSIVE FirstHex(_)
FirstHex(s) ==
  IF s = <<>> THEN <<>>
  ELSE IF Head(s).k = "hex" THEN <<Head(s)>> ELSE FirstHex(Tail(s))

RECURSIVE UpTo(_, _)
\* the text before the first occurrence of token sep
UpTo(s, sep) ==
  IF s = <<>> \/ Head(s) = sep THEN <<>> ELSE <<Head(s)>> \o UpTo(Tail(s), sep)

\* $expected, as [ok, val]; ok = FALSE when the expression throws.
\* first : (Get-Content $shaTmp).Split(" ")[0].Trim()   -- then .ToLower()
\* ps51  : (Get-Content $shaTmp -Raw).Trim().ToLower(), replaced by the first
\*         [0-9a-fA-F]{64} of the file when it is not ^[0-9a-f]{64}$
ExpectedDigest(v, sha) ==
  IF sha.data = <<>> THEN [ok |-> FALSE, val |-> <<>>]
  ELSE IF v = "ps51"
  THEN LET e == ToLower(Trim(sha.data))
           m == FirstHex(sha.data)
       IN  [ok |-> TRUE,
            val |-> IF ~IsHex64(e) /\ m # <<>> THEN ToLower(m) ELSE e]
  ELSE [ok |-> TRUE, val |-> ToLower(Trim(UpTo(UpTo(sha.data, NL), SP)))]

\* $actual = (Get-FileHash $tmpDownload -Algorithm SHA256).Hash.ToLower()
ActualDigest(f) == ToLower(GetFileHash(f))

\* a comparison that lets every digest pass
Mismatch_Never(expected, actual) == FALSE

\* if ($expected -ne $actual) { ... throw }
Mismatch(expected, actual) == expected # actual

\* ---------------------------------------------------- Hook Installer
\* The two installers: scripts\install_hooks.ps1, which writes .bat stubs,
\* and the installer listed in README.md, which writes sh stubs.
Installers == {"bat", "sh"}

\* The events the sync is to follow, and the files under .git\hooks that
\* stand for an event's slot.
Slots == {"post-merge", "post-checkout", "post-rewrite"}
SlotFiles(slot) == {slot, slot \o ".bat"}
HookFiles == UNION {SlotFiles(slot) : slot \in Slots}

\* $targets of install_hooks.ps1; $postMergePath, $postCheckoutPath of the
\* README installer, in the order they are written.
Targets(i) ==
  IF i = "bat"
  THEN <<"post-checkout.bat", "post-merge.bat", "post-rewrite.bat">>
  ELSE <<"post-merge", "post-checkout">>

\* A hook file: absent, a stub (the script it starts and the arguments it
\* passes to it), or something else the developer put there.
NoHook == [kind |-> "absent", shell |-> "", runs |-> "", args |-> <<>>]
OwnHook == [kind |-> "other", shell |-> "sh", runs |-> "", args |-> <<>>]

\* $bat : powershell ... -File "%~dp0..\..\scripts\sync_db.ps1"
\* README: powershell.exe ... -File "$repoRoot/scripts/sync_db.ps1"
Stub(i) ==
  [kind |-> "stub", shell |-> i, runs |-> "scripts/sync_db.ps1",
   args |-> <<>>]

\* The installer is not running.
NoInstall == [pc |-> "idle", who |-> "", todo |-> <<>>, code |-> 0]

\* ============================================================== state
\* ------------------------------------------------- dashboard scripts
\* The content of <meta name="api-jwt">: nothing, or a JWT whose payload
\* has the expiry exp (seconds; 0: no exp in the payload).
NoJwt == [kind |-> "none", exp |-> 0]
Jwt(e) == [kind |-> "jwt", exp |-> e]

\* Math.floor(Date.now() / 1000) at the calls, and the exp of the tokens
\* the server hands out.
NowSecs == {1000, 1090}
Exps == {0, 990, 1030, 1200}
IssuedTokens == {Jwt(e) : e \in Exps}
RenderedTokens == {NoJwt} \cup IssuedTokens

Statuses == {200, 401, 403}

\* function secondsUntilExpiry(token), with nowSec
secondsUntilExpiry(token, nowSec) ==
  IF token.kind # "jwt" \/ token.exp = 0 THEN 0 ELSE token.exp - nowSec

\* Math.max((sec - 60) * 1000, 5000)
RefreshInMs(sec) ==
  IF (sec - 60) * 1000 > 5000 THEN (sec - 60) * 1000 ELSE 5000

\* authHeaders(): the Authorization header of a request, "" for none
authHeaders(token) == IF token.kind = "none" THEN NoJwt ELSE token

\* setTimeout's return value: an id no pending timer has
FreshId(pending) ==
  CHOOSE n \in 1..(Cardinality(pending) + 1) :
    \A t \in pending : t.id # n

NoAf == [pc |-> "idle", sends |-> <<>>, first |-> 0, second |-> 0,
         reissues |-> 0, ret |-> 0]
NoAx == [pc |-> "idle", sends |-> 0, retried |-> FALSE, refreshes |-> 0,
         login |-> FALSE]

VARIABLES
  gitDir,       \* <root>\.git : "none", "nohooks" (no hooks folder) or "ok"
  hookFiles,    \* the files under <root>\.git\hooks, by name
  inst,         \* the hook installer process: [pc, who, todo, code]
  variant,      \* which sync_db.ps1 is installed under scripts\
  now,          \* Get-Date, in seconds
  targetDb,     \* <root>\db.sqlite3            (LocalReplica)
  versionFile,  \* <root>\.db_version           (VersionMarker)
  backups,      \* <root>\db.sqlite3.bak.<ts>, by ts
  tmpDownload,  \* $env:TEMP\db_release.sqlite3 (StagedArtifact)
  shaTmp,       \* $env:TEMP\db_release.sha256.txt (StagedChecksum)
  pc,           \* per invocation: the statement it is about to run
  cfg,          \* per invocation: -Owner, -Repo and remote.origin.url
  api,          \* per invocation: <<$Owner, $Repo>> of the release query
  rel,          \* per invocation: $rel
  localTag,     \* per invocation: $localTag
  result,       \* per invocation: how it ended, [outcome, code, err]
  pre,          \* per invocation: the files when it was launched
  fetched,      \* per invocation: what its asset download wrote
  expected,     \* per invocation: $expected, once it has been extracted
  net,          \* per invocation: the network requests it issued, in order
  prev,         \* the tag installed by the invocation that ended last, or ""
  loaded,       \* the dashboard page has run its scripts
  apiJwt,       \* content of <meta name="api-jwt">
  refreshTimer, \* var refreshTimer: 0 (null) or a timer id
  timers,       \* the browser's pending timeouts, [id, ms]
  auto,         \* issue-token requests in flight that no authFetch awaits
  af,           \* the AdminToken.authFetch call
  ax            \* the request made through the shared axios instance

fs    == <<targetDb, versionFile, backups, tmpDownload, shaTmp>>
env   == <<variant, now>>
vcs   == <<gitDir, hookFiles, inst>>
local == <<pc, cfg, api, rel, localTag, result, pre, fetched, expected,
           net>>
web   == <<loaded, apiJwt, refreshTimer, timers, auto, af, ax>>
sync  == <<env, vcs, fs, local, prev>>
vars  == <<gitDir, hookFiles, inst, variant, now, targetDb, versionFile,
           backups, tmpDownload, shaTmp, pc, cfg, api, rel, localTag, result,
           pre, fetched, expected, net, prev, loaded, apiJwt, refreshTimer,
           timers, auto, af, ax>>

Clock == 0..MaxClock

NoConfig == [Owner |-> "", Repo |-> "", url |-> NoUrl]
NoExpected == [ok |-> FALSE, val |-> <<>>]
NoResult == [outcome |-> "none", code |-> 0, err |-> ""]
Snapshot == [db |-> targetDb, marker |-> versionFile, backups |-> backups,
             tmp |-> tmpDownload, sha |-> shaTmp]

Init ==
  /\ gitDir = "ok"
  /\ hookFiles = [f \in HookFiles |-> NoHook]
  /\ inst = NoInstall
  /\ variant \in Variants
  /\ now = 0
  /\ targetDb \in {NoBlob, File(DevDb)}
  /\ versionFile = NoFile
  /\ backups = [ts \in Clock |-> NoBlob]
  /\ tmpDownload = NoBlob
  /\ shaTmp = NoFile
  /\ pc = [p \in Procs |-> "idle"]
  /\ cfg = [p \in Procs |-> NoConfig]
  /\ api = [p \in Procs |-> <<"", "">>]
  /\ rel = [p \in Procs |-> NoRelease]
  /\ localTag = [p \in Procs |-> <<>>]
  /\ result = [p \in Procs |-> NoResult]
  /\ pre = [p \in Procs |-> Snapshot]
  /\ fetched = [p \in Procs |-> NoBlob]
  /\ expected = [p \in Procs |-> NoExpected]
  /\ net = [p \in Procs |-> <<>>]
  /\ prev = ""
  /\ loaded = FALSE
  /\ apiJwt = NoJwt
  /\ refreshTimer = 0
  /\ timers = {}
  /\ auto = 0
  /\ af = NoAf
  /\ ax = NoAx

\* ------------------------------------------------------ ways to end
\* PowerShell's default, when the script does not set the preference
ErrorActionPreference_Continue == "Continue"

\* $ErrorActionPreference = "Stop"
ErrorActionPreference == "Stop"

\* a transfer straight to $targetDb
StagingPath_Live == "target"

\* $tmpDownload = Join-Path $env:TEMP $AssetName : where the transfer writes
StagingPath == "tmp"

\* an error path that reports and then ends like a normal end of the script
Fail_Exit0(p, e) ==
  /\ pc' = [pc EXCEPT ![p] = "done"]
  /\ result' = [result EXCEPT ![p] = [outcome |-> "failed", code |-> 0, err |-> e]]

\* an error path that starts over at the release query
Fail_Retry(p, e) ==
  /\ pc' = [pc EXCEPT ![p] = "query"]
  /\ UNCHANGED result

\* "Write-Error ...; exit 1" and "throw ...": the invocation ends, code 1
Fail(p, e) ==
  /\ pc' = [pc EXCEPT ![p] = "done"]
  /\ result' = [result EXCEPT ![p] = [outcome |-> "failed", code |-> 1, err |-> e]]

\* "exit 0" after the up-to-date message, and the end of the script
Exit0(p, o) ==
  /\ pc' = [pc EXCEPT ![p] = "done"]
  /\ result' = [result EXCEPT ![p] = [outcome |-> o, code |-> 0, err |-> ""]]

Goto(p, l) ==
  /\ pc' = [pc EXCEPT ![p] = l]
  /\ UNCHANGED result

\* a script that goes on with the next statement after a cmdlet's error
CmdletFailed_Ignore(p, e, l) == Goto(p, l)

\* A cmdlet reports an error: under "Stop" the script ends there, otherwise
\* it goes on with the statement after it.
CmdletFailed(p, e, l) ==
  IF ErrorActionPreference = "Stop" THEN Fail(p, e) ELSE Goto(p, l)

\* a check that lets every owner/repo pair through
Resolved_Always(c) == TRUE

\* if (-not $Owner -or -not $Repo) { throw ... } : the pair is usable
Resolved(c) == c[1] # "" /\ c[2] # ""

\* ------------------------------------------------------- the script
\* Param(...), Get-RepoRoot, OWNER/REPO detection, the three paths
LaunchWith(p, configs) ==
  /\ pc[p] = "idle"
  /\ pre' = [pre EXCEPT ![p] = Snapshot]
  /\ \E k \in configs :
       LET c == Locate(k) IN
       /\ cfg' = [cfg EXCEPT ![p] = k]
       /\ IF Resolved(c)
          THEN Goto(p, "query") /\ api' = [api EXCEPT ![p] = c]
          ELSE Fail(p, "config") /\ UNCHANGED api
  /\ UNCHANGED <<env, vcs, web, fs, rel, localTag, fetched, expected, net, prev>>

Launch(p) == LaunchWith(p, Configs)

\* One invocation at a time: a hook starts the script when none runs (and
\* then in the first process slot).
LaunchSeq(p) ==
  /\ \A q \in Procs : pc[q] = "idle"
  /\ \A q \in Procs : p <= q
  /\ Launch(p)

\* try { $rel = Invoke-RestMethod ... } catch { ... } : the answer is the
\* release that is the latest one at that moment, or the request fails.
Query(p) ==
  /\ pc[p] = "query"
  /\ net' = [net EXCEPT ![p] = Append(@, "meta")]
  /\ \/ /\ \E r \in Releases : rel' = [rel EXCEPT ![p] = r]
        /\ Goto(p, "readTag")
     \/ /\ Fail(p, "remote")
        /\ UNCHANGED rel
  /\ UNCHANGED <<env, vcs, web, fs, cfg, api, localTag, pre, fetched, expected, prev>>

\* $remoteTag = $rel.tag_name ; $localTag = ...
ReadTag(p) ==
  /\ pc[p] = "readTag"
  /\ localTag' = [localTag EXCEPT ![p] = ReadLocalTag(variant, versionFile)]
  /\ Goto(p, "skipCheck")
  /\ UNCHANGED <<env, vcs, web, fs, cfg, api, rel, pre, fetched, expected, net, prev>>

\* the up-to-date check, then "Find assets"
SkipCheck(p) ==
  /\ pc[p] = "skipCheck"
  /\ IF ShouldSkip(TagText(rel[p].tag), localTag[p], targetDb)
     THEN Exit0(p, "skipped")
     ELSE IF ~rel[p].asset
     THEN Fail(p, "asset")
     ELSE Goto(p, "download")
  /\ UNCHANGED <<env, vcs, web, fs, cfg, api, rel, localTag, pre, fetched, expected, net, prev>>

\* a verifier that runs whether or not the release has a checksum asset
AfterDownload_AlwaysVerify(r) == "verify"

\* a script that goes from the download straight to the backup
AfterDownload_SkipVerify(r) == "backup"

\* after the asset download: $shaAsset = ... ; if ($shaAsset) { ...
AfterDownload(r) == IF r.sha # "none" THEN "downloadSha" ELSE "backup"

\* the transfer writes f at the -OutFile path
WriteOut(f) ==
  IF StagingPath = "tmp"
  THEN tmpDownload' = f /\ UNCHANGED targetDb
  ELSE targetDb' = f /\ UNCHANGED tmpDownload

\* Invoke-WebRequest -Uri $downloadUrl -OutFile $tmpDownload : the whole
\* asset is written, or the cmdlet fails, having written nothing or a part.
Download(p) ==
  /\ pc[p] = "download"
  /\ net' = [net EXCEPT ![p] = Append(@, "asset")]
  /\ \/ /\ WriteOut(File(Artifact(rel[p].tag)))
        /\ fetched' = [fetched EXCEPT ![p] = File(Artifact(rel[p].tag))]
        /\ Goto(p, AfterDownload(rel[p]))
     \/ /\ \/ UNCHANGED <<tmpDownload, targetDb>>
           \/ WriteOut(File(Truncated(rel[p].tag)))
        /\ CmdletFailed(p, "download", AfterDownload(rel[p]))
        /\ UNCHANGED fetched
  /\ UNCHANGED <<env, vcs, web, versionFile, backups, shaTmp, cfg, api, rel, localTag,
                 pre, expected, prev>>

\* Invoke-WebRequest -Uri $shaAsset.browser_download_url -OutFile $shaTmp
DownloadShaFrom(p, texts) ==
  /\ pc[p] = "downloadSha"
  /\ net' = [net EXCEPT ![p] = Append(@, "sha")]
  /\ \/ /\ \E t \in texts : shaTmp' = File(t)
        /\ Goto(p, "verify")
     \/ /\ CmdletFailed(p, "download", "verify")
        /\ UNCHANGED shaTmp
  /\ UNCHANGED <<env, vcs, web, targetDb, versionFile, backups, tmpDownload, cfg, api, rel,
                 localTag, pre, fetched, expected, prev>>

DownloadSha(p) == DownloadShaFrom(p, {ShaText(rel[p])})

\* the same download from a release whose checksum asset holds any text
DownloadShaAny(p) == DownloadShaFrom(p, ShaTexts)

\* $expected = ... ; $actual = ... ; compare.  Get-FileHash of a missing
\* file and a method call on $null both end the script; only the ps51
\* variant removes the staged artifact on a mismatch.
Verify(p) ==
  /\ pc[p] = "verify"
  /\ LET e == ExpectedDigest(variant, shaTmp) IN
     /\ expected' = [expected EXCEPT ![p] = e]
     /\ IF ~e.ok \/ ~TestPath(tmpDownload)
        THEN Fail(p, "verify") /\ UNCHANGED tmpDownload
        ELSE IF Mismatch(e.val, ActualDigest(tmpDownload))
        THEN /\ Fail(p, "integrity")
             /\ tmpDownload' = IF variant = "ps51" THEN NoBlob ELSE tmpDownload
        ELSE Goto(p, "backup") /\ UNCHANGED tmpDownload
  /\ UNCHANGED <<env, vcs, web, targetDb, versionFile, backups, shaTmp, cfg, api, rel,
                 localTag, pre, fetched, net, prev>>

\* if (Test-Path $targetDb) { $ts = Get-Date ... ; Copy-Item ... }
Backup(p) ==
  /\ pc[p] = "backup"
  /\ \/ /\ backups' = IF TestPath(targetDb)
                      THEN [backups EXCEPT ![now] = CopyItem(targetDb, @)]
                      ELSE backups
        /\ Goto(p, "move")
     \/ /\ TestPath(targetDb)
        /\ CmdletFailed(p, "backup", "move")
        /\ UNCHANGED backups
  /\ UNCHANGED <<env, vcs, web, targetDb, versionFile, tmpDownload, shaTmp, cfg, api, rel,
                 localTag, pre, fetched, expected, net, prev>>

\* Move-Item -Force $tmpDownload $targetDb
Move(p) ==
  /\ pc[p] = "move"
  /\ \/ /\ TestPath(tmpDownload)
        /\ targetDb' = MoveItem(tmpDownload, targetDb)
        /\ tmpDownload' = NoBlob
        /\ Goto(p, "marker")
     \/ /\ CmdletFailed(p, "move", "marker")
        /\ UNCHANGED <<targetDb, tmpDownload>>
  /\ UNCHANGED <<env, vcs, web, versionFile, backups, shaTmp, cfg, api, rel, localTag, pre,
                 fetched, expected, net, prev>>

\* Set-Content -Path $versionFile -Value $remoteTag
WriteMarker(p) ==
  /\ pc[p] = "marker"
  /\ \/ /\ versionFile' = SetContent(versionFile, TagText(rel[p].tag))
        /\ Goto(p, "report")
     \/ /\ CmdletFailed(p, "marker", "report")
        /\ UNCHANGED versionFile
  /\ UNCHANGED <<env, vcs, web, targetDb, backups, tmpDownload, shaTmp, cfg, api, rel,
                 localTag, pre, fetched, expected, net, prev>>

\* Write-Host "Sync done: ..." ; the script ends
Report(p) ==
  /\ pc[p] = "report"
  /\ Exit0(p, "installed")
  /\ UNCHANGED <<env, vcs, web, fs, cfg, api, rel, localTag, pre, fetched, expected, net, prev>>

\* The process is killed before it completes its next statement (err names
\* that statement); a kill during the asset transfer may leave a cut file
\* at the -OutFile path.
Kill(p) ==
  /\ pc[p] \notin {"idle", "done"}
  /\ result' = [result EXCEPT ![p] =
                  [outcome |-> "killed", code |-> 1, err |-> pc[p]]]
  /\ pc' = [pc EXCEPT ![p] = "done"]
  /\ \/ UNCHANGED <<tmpDownload, targetDb>>
     \/ /\ pc[p] = "download"
        /\ WriteOut(File(Truncated(rel[p].tag)))
  /\ UNCHANGED <<env, vcs, web, versionFile, backups, shaTmp, cfg, api, rel, localTag, pre,
                 fetched, expected, net, prev>>

\* The process is gone; its variables with it.
Return(p) ==
  /\ pc[p] = "done"
  /\ pc' = [pc EXCEPT ![p] = "idle"]
  /\ prev' = IF result[p].outcome = "installed" THEN rel[p].tag ELSE ""
  /\ cfg' = [cfg EXCEPT ![p] = NoConfig]
  /\ api' = [api EXCEPT ![p] = <<"", "">>]
  /\ rel' = [rel EXCEPT ![p] = NoRelease]
  /\ localTag' = [localTag EXCEPT ![p] = <<>>]
  /\ result' = [result EXCEPT ![p] = NoResult]
  /\ pre' = [pre EXCEPT ![p] = Snapshot]
  /\ fetched' = [fetched EXCEPT ![p] = NoBlob]
  /\ expected' = [expected EXCEPT ![p] = NoExpected]
  /\ net' = [net EXCEPT ![p] = <<>>]
  /\ UNCHANGED <<env, vcs, web, fs>>

\* ------------------------------------------------------ environment
\* A second passes.  Only the backup step reads the clock, so a second that
\* passes during a run is taken to pass just before that step.
Tick ==
  /\ now < MaxClock
  /\ \A q \in Procs : pc[q] \in {"idle", "backup"}
  /\ now' = now + 1
  /\ UNCHANGED <<variant, vcs, web, fs, local, prev>>

\* Between runs the developer deletes db.sqlite3.
DeleteReplica ==
  /\ \A q \in Procs : pc[q] = "idle"
  /\ TestPath(targetDb)
  /\ targetDb' = NoBlob
  /\ prev' = ""
  /\ UNCHANGED <<env, vcs, web, versionFile, backups, tmpDownload, shaTmp, local>>

Step(p) ==
  \/ Query(p) \/ ReadTag(p) \/ SkipCheck(p) \/ Download(p) \/ DownloadSha(p)
  \/ Verify(p) \/ Backup(p) \/ Move(p) \/ WriteMarker(p) \/ Report(p)
  \/ Kill(p) \/ Return(p)

Next ==
  \/ \E p \in Procs : LaunchSeq(p) \/ Step(p)
  \/ Tick
  \/ DeleteReplica

Spec == Init /\ [][Next]_vars

\* Two hooks fire together: each process slot runs the script once, and the
\* statements of the two invocations interleave in any order.
NextConc ==
  \E p \in Procs :
    \/ Launch(p) \/ Query(p) \/ ReadTag(p) \/ SkipCheck(p) \/ Download(p)
    \/ DownloadSha(p) \/ Verify(p) \/ Backup(p) \/ Move(p) \/ WriteMarker(p)
    \/ Report(p) \/ Kill(p)

SpecConc == Init /\ [][NextConc]_vars

\* One invocation, from its start to its end, on releases whose checksum
\* asset holds any text.
NextParse ==
  \E p \in Procs :
    \/ LaunchSeq(p) \/ Query(p) \/ ReadTag(p) \/ SkipCheck(p) \/ Download(p)
    \/ DownloadShaAny(p) \/ Verify(p) \/ Backup(p) \/ Move(p)
    \/ WriteMarker(p) \/ Report(p)

SpecParse == Init /\ [][NextParse]_vars

\* The script is started by hand with any parameters, in a working copy
\* with any remote, and runs up to the answer to its release query.
LaunchAny(p) ==
  /\ \A q \in Procs : pc[q] = "idle"
  /\ \A q \in Procs : p <= q
  /\ LaunchWith(p, LocatorConfigs)

NextLocate ==
  \E p \in Procs : LaunchAny(p) \/ Query(p) \/ Return(p)

SpecLocate == Init /\ [][NextLocate]_vars

\* ------------------------------------------------ the hook installers
\* an installer that does not look for the hooks folder
InstallStart_NoCheck(i) ==
  /\ inst.pc = "idle"
  /\ inst' = [pc |-> "write", who |-> i, todo |-> Targets(i), code |-> 0]
  /\ UNCHANGED <<gitDir, hookFiles, env, fs, local, prev, web>>

\* $repoRoot, $hooks; "if (-not (Test-Path $hooks)) { throw ... }"
InstallStart(i) ==
  /\ inst.pc = "idle"
  /\ inst' = IF gitDir = "ok"
             THEN [pc |-> "write", who |-> i, todo |-> Targets(i), code |-> 0]
             ELSE [pc |-> "done", who |-> i, todo |-> <<>>, code |-> 1]
  /\ UNCHANGED <<gitDir, hookFiles, env, fs, local, prev, web>>

\* an installer that leaves an existing hook file alone
InstallWrite_KeepExisting ==
  /\ inst.pc = "write"
  /\ inst.todo # <<>>
  /\ hookFiles' = IF hookFiles[Head(inst.todo)] = NoHook
                  THEN [hookFiles EXCEPT ![Head(inst.todo)] = Stub(inst.who)]
                  ELSE hookFiles
  /\ inst' = [inst EXCEPT !.todo = Tail(@)]
  /\ UNCHANGED <<gitDir, env, fs, local, prev, web>>

\* Set-Content -Path $p -Value $bat / ... | Out-File -FilePath $postMergePath
\* A write that fails ends install_hooks.ps1, which runs under "Stop"; the
\* README installer sets no preference and goes on with the next file.
InstallWrite ==
  /\ inst.pc = "write"
  /\ inst.todo # <<>>
  /\ \/ /\ hookFiles' = [hookFiles EXCEPT ![Head(inst.todo)] = Stub(inst.who)]
        /\ inst' = [inst EXCEPT !.todo = Tail(@)]
     \/ /\ UNCHANGED hookFiles
        /\ inst' = IF inst.who = "bat"
                   THEN [inst EXCEPT !.pc = "done", !.code = 1]
                   ELSE [inst EXCEPT !.todo = Tail(@)]
  /\ UNCHANGED <<gitDir, env, fs, local, prev, web>>

\* Write-Host "Done. ..." / "Git hooks installed: ..." ; the script ends
InstallEnd ==
  /\ inst.pc = "write"
  /\ inst.todo = <<>>
  /\ inst' = [inst EXCEPT !.pc = "done", !.code = 0]
  /\ UNCHANGED <<gitDir, hookFiles, env, fs, local, prev, web>>

InstallReturn ==
  /\ inst.pc = "done"
  /\ inst' = NoInstall
  /\ UNCHANGED <<gitDir, hookFiles, env, fs, local, prev, web>>

\* Between installer runs the developer replaces or deletes a hook file.
EditHook ==
  /\ inst.pc = "idle"
  /\ gitDir = "ok"
  /\ \E f \in HookFiles, c \in {NoHook, OwnHook} :
       /\ hookFiles[f] # c
       /\ hookFiles' = [hookFiles EXCEPT ![f] = c]
  /\ UNCHANGED <<gitDir, inst, env, fs, local, prev, web>>

\* Between installer runs the working copy loses or gains .git or its
\* hooks folder; without the folder there are no hook files.
SetGitDir ==
  /\ inst.pc = "idle"
  /\ \E g \in {"none", "nohooks", "ok"} :
       /\ g # gitDir
       /\ gitDir' = g
       /\ hookFiles' = IF g = "ok" THEN hookFiles
                       ELSE [f \in HookFiles |-> NoHook]
  /\ UNCHANGED <<inst, env, fs, local, prev, web>>

NextHooks ==
  \/ \E i \in Installers : InstallStart(i)
  \/ InstallWrite
  \/ InstallEnd
  \/ InstallReturn
  \/ EditHook
  \/ SetGitDir

SpecHooks == Init /\ [][NextHooks]_vars

\* ------------------------------------------- the dashboard's token code
\* function scheduleRefresh(), called with `base` automatic issue-token
\* requests in flight: clears the pending timer, then either calls
\* issueNewToken() at once or sets a new timer.
ScheduleRefresh(base) ==
  LET cleared == {t \in timers : t.id # refreshTimer} IN
  \E nowSec \in NowSecs :
    LET sec == secondsUntilExpiry(apiJwt', nowSec)
        id == FreshId(cleared) IN
    IF sec <= 0
    THEN /\ base < MaxInFlight
         /\ refreshTimer' = 0
         /\ timers' = cleared
         /\ auto' = base + 1
    ELSE /\ refreshTimer' = id
         /\ timers' = cleared \cup {[id |-> id, ms |-> RefreshInMs(sec)]}
         /\ auto' = base

\* The page is loaded with a server-rendered token; the script schedules
\* the refresh when the csrf-token meta is there.
PageLoad ==
  /\ ~loaded
  /\ loaded' = TRUE
  /\ \E tok \in RenderedTokens, csrf \in BOOLEAN :
       /\ apiJwt' = tok
       /\ IF csrf THEN ScheduleRefresh(auto)
                  ELSE UNCHANGED <<refreshTimer, timers, auto>>
  /\ UNCHANGED <<sync, af, ax>>

\* setTimeout(function() { issueNewToken().catch(function() {}); }, ms)
TimerFire ==
  /\ auto < MaxInFlight
  /\ \E t \in timers : timers' = timers \ {t}
  /\ auto' = auto + 1
  /\ UNCHANGED <<sync, loaded, apiJwt, refreshTimer, af, ax>>

\* issueNewToken(): the response is ok and has an access token
IssueOk(tok) ==
  /\ auto > 0
  /\ apiJwt' = tok
  /\ ScheduleRefresh(auto - 1)
  /\ UNCHANGED <<sync, loaded, af, ax>>

\* issueNewToken(): the request fails, the response is not ok or has no
\* access token; the caller's catch swallows the error.
IssueFail ==
  /\ auto > 0
  /\ auto' = auto - 1
  /\ UNCHANGED <<sync, loaded, apiJwt, refreshTimer, timers, af, ax>>

\* AdminToken.authFetch(url, options): the first tryOnce()
AuthFetch ==
  /\ loaded
  /\ af.pc = "idle"
  /\ af' = [NoAf EXCEPT !.pc = "sent1", !.sends = <<authHeaders(apiJwt)>>]
  /\ UNCHANGED <<sync, loaded, apiJwt, refreshTimer, timers, auto, ax>>

\* "if (res.status !== 401) return res; return self.refresh()..."
AfRespond1(st) ==
  /\ af.pc = "sent1"
  /\ af' = IF st # 401
           THEN [af EXCEPT !.pc = "done", !.first = st, !.ret = st]
           ELSE [af EXCEPT !.pc = "refreshing", !.first = st,
                           !.reissues = @ + 1]
  /\ UNCHANGED <<sync, loaded, apiJwt, refreshTimer, timers, auto, ax>>

\* a re-issue that failed ends the call
AfIssueFail_GiveUp ==
  /\ af.pc = "refreshing"
  /\ af' = [af EXCEPT !.pc = "rejected"]
  /\ UNCHANGED <<sync, loaded, apiJwt, refreshTimer, timers, auto, ax>>

\* self.refresh() succeeded: setMeta, scheduleRefresh(), then tryOnce
AfIssueOk(tok) ==
  /\ af.pc = "refreshing"
  /\ apiJwt' = tok
  /\ ScheduleRefresh(auto)
  /\ af' = [af EXCEPT !.pc = "sent2", !.sends = Append(@, authHeaders(tok))]
  /\ UNCHANGED <<sync, loaded, ax>>

\* self.refresh() failed: ".catch(function() {}).then(tryOnce)"
AfIssueFail ==
  /\ af.pc = "refreshing"
  /\ af' = [af EXCEPT !.pc = "sent2",
                      !.sends = Append(@, authHeaders(apiJwt))]
  /\ UNCHANGED <<sync, loaded, apiJwt, refreshTimer, timers, auto, ax>>

\* the response to the second tryOnce() is what the call returns
AfRespond2(st) ==
  /\ af.pc = "sent2"
  /\ af' = [af EXCEPT !.pc = "done", !.second = st, !.ret = st]
  /\ UNCHANGED <<sync, loaded, apiJwt, refreshTimer, timers, auto, ax>>

\* fetch() rejects (no response): the call's promise rejects
AfNetFail ==
  /\ af.pc \in {"sent1", "sent2"}
  /\ af' = [af EXCEPT !.pc = "rejected"]
  /\ UNCHANGED <<sync, loaded, apiJwt, refreshTimer, timers, auto, ax>>

AfReturn ==
  /\ af.pc \in {"done", "rejected"}
  /\ af' = NoAf
  /\ UNCHANGED <<sync, loaded, apiJwt, refreshTimer, timers, auto, ax>>

\* ------------------------------------------ the shared axios instance
\* api.request(config) by a page script
AxRequest ==
  /\ ax.pc = "idle"
  /\ ax' = [NoAx EXCEPT !.pc = "sent", !.sends = 1]
  /\ UNCHANGED <<sync, loaded, apiJwt, refreshTimer, timers, auto, af>>

\* The response interceptor: a success is passed on; 401 starts the
\* refresh-cookie call; any other error is rejected, and when the request
\* was a re-sent one the rejection lands in the refresh chain's catch
\* (alert, redirect to the login page).
AxRespond(st) ==
  /\ ax.pc = "sent"
  /\ ax' = CASE st = 200 -> [ax EXCEPT !.pc = "resolved"]
              [] st = 401 -> [ax EXCEPT !.pc = "refreshing",
                                        !.refreshes = @ + 1]
              [] OTHER -> [ax EXCEPT !.pc = "rejected",
                                     !.login = (ax.sends > 1)]
  /\ UNCHANGED <<sync, loaded, apiJwt, refreshTimer, timers, auto, af>>

\* ".then(function() { err.config._retried = true;
\*                     return api.request(err.config); })"
AxRefreshOk ==
  /\ ax.pc = "refreshing"
  /\ ax.sends < MaxSends
  /\ ax' = [ax EXCEPT !.pc = "sent", !.retried = TRUE, !.sends = @ + 1]
  /\ UNCHANGED <<sync, loaded, apiJwt, refreshTimer, timers, auto, af>>

\* ".catch(function() { alert(...); window.location.href = ...;
\*                      return Promise.reject(err); })"
AxRefreshFail ==
  /\ ax.pc = "refreshing"
  /\ ax' = [ax EXCEPT !.pc = "rejected", !.login = TRUE]
  /\ UNCHANGED <<sync, loaded, apiJwt, refreshTimer, timers, auto, af>>

AxReturn ==
  /\ ax.pc \in {"resolved", "rejected"}
  /\ ax' = NoAx
  /\ UNCHANGED <<sync, loaded, apiJwt, refreshTimer, timers, auto, af>>

NextWeb ==
  \/ PageLoad
  \/ TimerFire
  \/ \E tok \in IssuedTokens : IssueOk(tok)
  \/ IssueFail
  \/ AuthFetch
  \/ \E st \in Statuses : AfRespond1(st)
  \/ \E tok \in IssuedTokens : AfIssueOk(tok)
  \/ AfIssueFail
  \/ \E st \in Statuses : AfRespond2(st)
  \/ AfNetFail
  \/ AfReturn
  \/ AxRequest
  \/ \E st \in Statuses : AxRespond(st)
  \/ AxRefreshOk
  \/ AxRefreshFail
  \/ AxReturn

SpecWeb == Init /\ [][NextWeb]_vars

\* ============================================================ claims
\* What a run installs, and what "unchanged" means for a run.
NewDb(p)     == File(Artifact(rel[p].tag))
NewMarker(p) == File(<<Word(rel[p].tag), NL>>)

PersistentUnchanged(p) ==
  /\ targetDb = pre[p].db
  /\ versionFile = pre[p].marker
  /\ backups = pre[p].backups

ScratchUnchanged(p) ==
  /\ tmpDownload = pre[p].tmp
  /\ shaTmp = pre[p].sha

\* The tag a marker file records: its one line, without the line end.
RecordedTag(f) == IF f.exists THEN UpTo(f.data, NL) ELSE <<>>

\* The run staged an artifact whose digest is not the one the release's
\* checksum asset publishes.
BadDigest(p) ==
  /\ rel[p].sha # "none"
  /\ fetched[p].exists
  /\ ToLower(FirstHex(ShaText(rel[p]))) # <<Hex(fetched[p].data, FALSE)>>

\* C1: a run that neither skips nor fails leaves the asset it downloaded as
\* LocalReplica and a marker that holds that release's tag and nothing else.
C1_InstallSetsReplicaAndMarker ==
  \A p \in Procs :
    result[p].outcome = "installed" =>
      /\ fetched[p] = NewDb(p)
      /\ targetDb = fetched[p]
      /\ versionFile = NewMarker(p)

C1_Witness ==
  \E p \in Procs :
    /\ result[p].outcome = "installed"
    /\ pre[p].db.exists
    /\ pre[p].marker.exists
    /\ pre[p].marker # versionFile

\* C2: after a successful run for tag T, a run whose query answers T again
\* issues the metadata query only and leaves replica, marker and backups as
\* they were.
C2_Idempotence ==
  \A p \in Procs :
    (pc[p] = "done" /\ result[p].outcome # "killed"
       /\ prev # "" /\ rel[p].tag = prev) =>
      /\ net[p] = <<"meta">>
      /\ PersistentUnchanged(p)

\* C3: a run that reaches the check skips (code 0, no download, no file
\* touched) exactly when the remote tag is the recorded tag and the replica
\* exists; otherwise it goes on to the fetch stage.
C3_SkipIffCurrent ==
  \A p \in Procs :
    (pc[p] = "done" /\ result[p].outcome # "killed" /\ rel[p] # NoRelease) =>
      /\ (result[p].outcome = "skipped") <=>
           (TagText(rel[p].tag) = RecordedTag(pre[p].marker) /\ pre[p].db.exists)
      /\ result[p].outcome = "skipped" =>
           /\ result[p].code = 0
           /\ net[p] = <<"meta">>
           /\ PersistentUnchanged(p)
           /\ ScratchUnchanged(p)
      /\ result[p].outcome # "skipped" =>
           (result[p].err = "asset" \/ (Len(net[p]) >= 2 /\ net[p][2] = "asset"))

\* C4: a run that staged an artifact whose digest differs from the
\* published one never reaches the Replacer: it ends in failure with
\* replica, marker and backups as before the run.
C4_IntegrityGate ==
  \A p \in Procs :
    BadDigest(p) =>
      /\ pc[p] \notin {"backup", "move", "marker", "report"}
      /\ pc[p] = "done" => result[p].outcome \in {"failed", "killed"}
      /\ PersistentUnchanged(p)

C4_Witness ==
  \E p \in Procs :
    /\ BadDigest(p)
    /\ result[p].outcome = "failed"
    /\ result[p].err = "integrity"
    /\ pre[p].db.exists
    /\ pre[p].marker.exists

\* C5: LocalReplica never holds a cut transfer; during and after a run it
\* holds what it held before the run or the whole artifact of that run,
\* which passed the digest check if the release publishes a checksum.
C5_ReplicaNeverPartial ==
  /\ \A t \in Tags : targetDb.data # Truncated(t)
  /\ \A p \in Procs :
       pc[p] # "idle" =>
         \/ targetDb = pre[p].db
         \/ /\ targetDb = NewDb(p)
            /\ fetched[p] = NewDb(p)
            /\ ~BadDigest(p)

C5_Witness ==
  \E p \in Procs :
    /\ result[p].outcome = "installed"
    /\ pre[p].tmp.exists
    /\ pre[p].tmp.data \in {Truncated(t) : t \in Tags}
    /\ pre[p].db.exists

\* C6: a run killed before the move leaves replica and marker as before the
\* run; a run killed after the move leaves both at the new release.
C6_AtomicReplace ==
  \A p \in Procs :
    result[p].outcome = "killed" =>
      IF result[p].err \in {"marker", "report"}
      THEN targetDb = NewDb(p) /\ versionFile = NewMarker(p)
      ELSE targetDb = pre[p].db /\ versionFile = pre[p].marker

\* C7: a run that fails before the Replacer (configuration, query, missing
\* asset, either download, digest) leaves replica, marker and backups as
\* before the run.
C7_EarlyFailureKeepsState ==
  \A p \in Procs :
    (result[p].outcome = "failed"
       /\ result[p].err \in {"config", "remote", "asset", "download",
                             "verify", "integrity"}) =>
      PersistentUnchanged(p)

C7_Witness ==
  \E p \in Procs :
    /\ result[p].outcome = "failed"
    /\ result[p].err = "download"
    /\ tmpDownload = File(Truncated(rel[p].tag))
    /\ pre[p].db.exists
    /\ pre[p].marker.exists

\* C8: a run that fails in the backup copy, the move or the marker write
\* leaves replica and marker as before the run.
C8_ReplacerFailureKeepsState ==
  \A p \in Procs :
    (result[p].outcome = "failed"
       /\ result[p].err \in {"backup", "move", "marker"}) =>
      /\ targetDb = pre[p].db
      /\ versionFile = pre[p].marker

\* C9: a run that installs a new tag over an existing replica leaves exactly
\* one backup file that was not there before, holding the pre-run replica.
C9_OneNewBackup ==
  \A p \in Procs :
    (result[p].outcome = "installed" /\ pre[p].db.exists
       /\ TagText(rel[p].tag) # RecordedTag(pre[p].marker)) =>
      \E ts \in Clock :
        /\ ~pre[p].backups[ts].exists
        /\ backups[ts] = pre[p].db
        /\ \A u \in Clock \ {ts} : backups[u] = pre[p].backups[u]

\* C10: with no marker and no replica, a run on a release that publishes the
\* asset and no checksum never fails in verification, and unless it is
\* killed or a transfer or file operation fails it downloads the asset only,
\* installs it, records the tag and creates no backup.
C10_FirstInstallNoChecksum ==
  \A p \in Procs :
    (pc[p] = "done" /\ ~pre[p].marker.exists /\ ~pre[p].db.exists
       /\ rel[p].asset /\ rel[p].sha = "none") =>
      /\ result[p].err \notin {"verify", "integrity"}
      /\ result[p].outcome \notin {"failed", "killed"} =>
           /\ result[p].outcome = "installed"
           /\ result[p].code = 0
           /\ net[p] = <<"meta", "asset">>
           /\ targetDb = NewDb(p)
           /\ versionFile = NewMarker(p)
           /\ backups = pre[p].backups

C10_Witness ==
  \E p \in Procs :
    /\ result[p].outcome = "installed"
    /\ ~pre[p].marker.exists
    /\ ~pre[p].db.exists
    /\ rel[p].sha = "none"
    /\ pre[p].sha.exists

\* The requests an invocation has issued, and the case in which the request
\* for the primary asset did not deliver the whole asset.
Requested(p, what) == \E i \in 1..Len(net[p]) : net[p][i] = what

AssetTransferFailed(p) == Requested(p, "asset") /\ ~fetched[p].exists

\* C11: when the transfer of the primary asset fails or is cut, the run ends
\* there as a failure with a non-zero exit code: no backup is made, replica
\* and marker stay as they were and the replica is never the cut download,
\* whether or not the release publishes a checksum asset.
C11_FailedTransferIsFatal ==
  \A p \in Procs :
    AssetTransferFailed(p) =>
      /\ pc[p] = "done"
      /\ result[p].outcome = "failed"
      /\ result[p].err = "download"
      /\ result[p].code # 0
      /\ ~Requested(p, "sha")
      /\ PersistentUnchanged(p)
      /\ \A t \in Tags : targetDb # File(Truncated(t))

C11_Witness ==
  \E p \in Procs :
    /\ AssetTransferFailed(p)
    /\ rel[p].sha = "none"
    /\ pre[p].db.exists
    /\ tmpDownload = File(Truncated(rel[p].tag))

\* The fatal outcomes of the script: configuration, metadata query, missing
\* asset, a transfer, digest extraction, digest mismatch, and the three
\* Replacer steps.
FatalErrors ==
  {"config", "remote", "asset", "download", "verify", "integrity",
   "backup", "move", "marker"}

\* C12: a run that is not killed ends with exit code 0 exactly when it
\* installed the release (replica and marker are the release's) or skipped
\* after the metadata query alone; every fatal outcome ends with a non-zero
\* exit code.
C12_ExitContract ==
  \A p \in Procs :
    (pc[p] = "done" /\ result[p].outcome # "killed") =>
      /\ result[p].code = 0 <=> result[p].outcome \in {"installed", "skipped"}
      /\ result[p].outcome = "installed" =>
           targetDb = NewDb(p) /\ versionFile = NewMarker(p)
      /\ result[p].outcome = "skipped" =>
           net[p] = <<"meta">> /\ PersistentUnchanged(p)
      /\ result[p].outcome = "failed" <=> result[p].err \in FatalErrors
      /\ result[p].err \in FatalErrors => result[p].code # 0

C12_Witness ==
  \E p \in Procs :
    /\ pc[p] = "done"
    /\ result[p].err = "move"
    /\ result[p].code = 1
    /\ rel[p].sha = "named"

\* Parameters and remote from which no owner/repo pair can be had: -Owner or
\* -Repo is missing and the remote URL is absent or not a GitHub URL.
Unresolvable(k) ==
  /\ k.Owner = "" \/ k.Repo = ""
  /\ k.url = NoUrl \/ ParseGitRemote(k.url) = <<"", "">>

\* C13: a run started without both -Owner and -Repo and without a parseable
\* remote URL ends as a configuration failure, with a non-zero exit code,
\* having issued no network request and touched no file.
C13_ConfigErrorBeforeNetwork ==
  \A p \in Procs :
    (pc[p] # "idle" /\ Unresolvable(cfg[p])) =>
      /\ pc[p] = "done"
      /\ result[p].outcome = "failed"
      /\ result[p].err = "config"
      /\ result[p].code # 0
      /\ net[p] = <<>>
      /\ rel[p] = NoRelease
      /\ PersistentUnchanged(p)
      /\ ScratchUnchanged(p)

C13_Witness ==
  \E p \in Procs :
    /\ pc[p] = "done"
    /\ result[p].err = "config"
    /\ cfg[p].url.host = "gitlab.com"
    /\ net[p] = <<>>

\* A slot holds a stub that starts the sync entry point with no arguments.
Triggers(slot) ==
  \E f \in SlotFiles(slot) :
    /\ hookFiles[f].kind = "stub"
    /\ hookFiles[f].runs = "scripts/sync_db.ps1"
    /\ hookFiles[f].args = <<>>

\* C14: when a hook installer has run to its end with exit code 0, each of
\* the three slots post-merge, post-checkout and post-rewrite holds a stub
\* that starts the sync entry point with no arguments.
C14_AllThreeSlots ==
  (inst.pc = "done" /\ inst.code = 0) => \A slot \in Slots : Triggers(slot)

\* A text that starts with a 64-hex digest followed by white space.
LeadingDigest(text) ==
  /\ Len(text) >= 2
  /\ text[1].k = "hex"
  /\ IsWs(text[2])

\* The verification of invocation p has extracted $expected (or thrown).
Extracted(p) ==
  pc[p] = "backup" \/ (pc[p] = "done" /\ result[p].err \in {"verify", "integrity"})

\* C15: when the checksum file starts with a 64-hex digest followed by white
\* space and any further text, the expected digest the verifier extracts is
\* that leading digest (in lower case).
C15_TolerantParse ==
  \A p \in Procs :
    (Extracted(p) /\ Requested(p, "sha") /\ LeadingDigest(shaTmp.data)) =>
      /\ expected[p].ok
      /\ expected[p].val = ToLower(<<shaTmp.data[1]>>)

\* C16: in every interleaving of two invocations that share the scratch
\* path, no step leaves a cut download as LocalReplica, and the move of an
\* invocation puts into LocalReplica the very content that invocation
\* downloaded and verified.
C16_ConcurrentStaging ==
  [][ /\ \A t \in Tags : targetDb' # File(Truncated(t))
      /\ \A p \in Procs :
           (pc[p] = "move" /\ pc'[p] = "marker") => targetDb' = fetched[p]
    ]_vars

\* Invocation p has run its backup step and has not yet finished the write
\* of the version marker.
InReplacer(p) == pc[p] \in {"move", "marker"}

\* C17: at most one invocation at a time is between the start of its backup
\* step and the end of its version-marker write.
C17_ReplacerMutex ==
  \A p, q \in Procs : (InReplacer(p) /\ InReplacer(q)) => p = q

\* Invocation p has the whole primary asset staged; and, when its release
\* publishes a checksum asset, has fetched it and found the digest of what
\* it staged equal to the expected digest.
Staged(p) == Requested(p, "asset") /\ fetched[p].exists

Checked(p) ==
  rel[p].sha # "none" =>
    /\ Requested(p, "sha")
    /\ expected[p].ok
    /\ expected[p].val = ActualDigest(fetched[p])

\* C18: an invocation is at its backup step or beyond, or has changed the
\* backups or LocalReplica, only when its download of the primary asset has
\* completed and, if the release publishes a checksum asset, the digest of
\* the staged artifact has been found equal to the expected one.
C18_StageOrder ==
  \A p \in Procs :
    ( /\ pc[p] # "idle"
      /\ \/ pc[p] \in {"backup", "move", "marker", "report"}
         \/ result[p].outcome = "installed"
         \/ backups # pre[p].backups
         \/ targetDb # pre[p].db ) =>
      Staged(p) /\ Checked(p)

C18_Witness ==
  \E p \in Procs :
    /\ pc[p] = "marker"
    /\ rel[p].sha = "named"
    /\ backups # pre[p].backups
    /\ targetDb # pre[p].db
    /\ expected[p].val = ActualDigest(fetched[p])

\* C19: during a run LocalReplica changes only in the move step of the
\* Replacer, the marker changes only in its marker step, and the marker
\* step is taken only when LocalReplica is the artifact that invocation
\* staged, checked and moved.  (Between runs the developer may delete the
\* replica.)
C19_OnlyReplacerWrites ==
  [][ /\ targetDb' # targetDb =>
           \/ \E p \in Procs : pc[p] = "move" /\ pc'[p] = "marker"
           \/ \A p \in Procs : pc[p] = "idle"
      /\ versionFile' # versionFile =>
           \E p \in Procs : pc[p] = "marker" /\ pc'[p] = "report"
      /\ \A p \in Procs :
           (pc[p] = "marker" /\ pc'[p] = "report") =>
             /\ Staged(p) /\ Checked(p)
             /\ targetDb = fetched[p]
             /\ tmpDownload = NoBlob
    ]_vars

C19_Witness ==
  \E p \in Procs :
    /\ pc[p] = "report"
    /\ versionFile = NewMarker(p)
    /\ versionFile # pre[p].marker
    /\ targetDb = fetched[p]
    /\ targetDb # pre[p].db

\* C20: no step changes the content of a backup file that exists: a backup
\* step whose computed name <replica>.bak.<timestamp> is taken leaves that
\* file as it was.
C20_BackupNeverOverwrites ==
  [][ \A ts \in Clock : backups[ts].exists => backups'[ts] = backups[ts] ]_vars

\* C21: an invocation verifies only a checksum file and a staged artifact it
\* wrote itself, enters the verification only when its release publishes a
\* checksum asset, and moves into LocalReplica only the artifact it staged
\* itself, whatever scratch files an earlier attempt left behind.
C21_OwnScratchOnly ==
  [][ \A p \in Procs :
        /\ (pc[p] = "verify" /\ pc'[p] # "verify") =>
             /\ rel[p].sha # "none"
             /\ shaTmp = File(ShaText(rel[p]))
             /\ fetched[p].exists
             /\ tmpDownload = fetched[p]
        /\ (rel[p].sha = "none" /\ pc[p] # "idle") =>
             pc'[p] # "verify" /\ expected'[p] = NoExpected
        /\ (pc[p] = "move" /\ pc'[p] = "marker") =>
             fetched[p].exists /\ targetDb' = fetched[p]
    ]_vars

C21_Witness ==
  \E p \in Procs :
    /\ pc[p] = "marker"
    /\ rel[p].sha = "named"
    /\ pre[p].sha.exists
    /\ pre[p].sha # shaTmp
    /\ pre[p].tmp.exists
    /\ pre[p].tmp # fetched[p]
    /\ targetDb = fetched[p]

\* C22: an invocation that ends on a digest mismatch leaves no staged
\* artifact at the scratch path.
C22_MismatchDiscardsArtifact ==
  \A p \in Procs :
    (pc[p] = "done" /\ result[p].err = "integrity") => ~TestPath(tmpDownload)

\* C23: an invocation that ends because a transfer failed leaves neither a
\* staged artifact nor a staged checksum at the scratch paths.
C23_FailedTransferDiscardsScratch ==
  \A p \in Procs :
    (pc[p] = "done" /\ result[p].err = "download") =>
      ~TestPath(tmpDownload) /\ ~TestPath(shaTmp)

\* No invocation is running.
BetweenRuns == \A p \in Procs : pc[p] = "idle"

\* C24: between invocations, when the marker holds tag t and LocalReplica
\* exists, LocalReplica is the primary asset of release t.
C24_MarkerReplicaAgree ==
  BetweenRuns =>
    \A t \in Tags :
      (RecordedTag(versionFile) = TagText(t) /\ TestPath(targetDb)) =>
        targetDb = File(Artifact(t))

\* C25: an invocation that completes without fault on a release with the
\* primary asset leaves the marker holding that release's tag and
\* LocalReplica holding that release's asset, whatever state earlier failed
\* or killed runs left; and an invocation that finds the release the
\* invocation before it installed skips.
C25_Convergence ==
  \A p \in Procs :
    (pc[p] = "done" /\ rel[p].asset
       /\ result[p].outcome \in {"installed", "skipped"}) =>
      /\ RecordedTag(versionFile) = TagText(rel[p].tag)
      /\ targetDb = NewDb(p)
      /\ prev = rel[p].tag => result[p].outcome = "skipped"

\* C26: when two invocations that ran together on releases with different
\* tags have both finished their installation, the marker holds the tag of
\* the release whose asset is LocalReplica.
C26_ConcurrentAgreement ==
  \A p, q \in Procs :
    ( /\ p # q
      /\ pc[p] = "done" /\ result[p].outcome = "installed"
      /\ pc[q] = "done" /\ result[q].outcome = "installed"
      /\ rel[p].tag # rel[q].tag ) =>
      \E t \in Tags :
        /\ RecordedTag(versionFile) = TagText(t)
        /\ targetDb = File(Artifact(t))

\* A text that holds no 64-hex digest (the empty text among them).
NoDigest(text) == FirstHex(text) = <<>>

\* C27: when the checksum asset an invocation fetched is empty or holds no
\* 64-hex digest, the invocation goes no further than the verification: it
\* ends there as a failure with a non-zero exit code, and LocalReplica,
\* marker and backups are as they were.
C27_FailClosedChecksum ==
  \A p \in Procs :
    (Requested(p, "sha") /\ TestPath(shaTmp) /\ NoDigest(shaTmp.data)) =>
      /\ pc[p] \in {"verify", "done"}
      /\ PersistentUnchanged(p)
      /\ pc[p] = "done" =>
           /\ result[p].outcome = "failed"
           /\ result[p].err \in {"verify", "integrity"}
           /\ result[p].code # 0

C27_Witness ==
  \E p \in Procs :
    /\ pc[p] = "done"
    /\ Requested(p, "sha")
    /\ shaTmp = File(<<>>)
    /\ result[p].err = "verify"
    /\ pre[p].db.exists

\* The requests of one invocation, in the order the script issues them.
RequestOrder == <<"meta", "asset", "sha">>

\* C28: an invocation issues its requests in the order metadata query,
\* primary asset, checksum asset, each at most once; the step in which it
\* fails changes neither LocalReplica nor marker nor backups, and once it
\* has failed it issues no request and changes none of the three.
C28_NoRetry ==
  [][ \A p \in Procs :
        /\ \E n \in 0..Len(RequestOrder) :
             net'[p] = SubSeq(RequestOrder, 1, n)
        /\ (pc'[p] = "done" /\ result'[p].outcome = "failed") =>
             /\ targetDb' = targetDb
             /\ versionFile' = versionFile
             /\ backups' = backups
             /\ pc[p] = "done" => net'[p] = net[p]
    ]_vars

C28_Witness ==
  \E p \in Procs :
    /\ pc[p] = "done"
    /\ result[p].err = "integrity"
    /\ net[p] = RequestOrder
    /\ pre[p].db.exists

\* C29: when the marker file is what Set-Content wrote for tag t, the local
\* tag an invocation reads from it is t, so that it compares equal to the
\* remote tag t.
C29_MarkerRoundTrip ==
  \A p \in Procs : \A t \in Tags :
    (pc[p] = "skipCheck" /\ versionFile = SetContent(NoFile, TagText(t))) =>
      /\ localTag[p] = TagText(t)
      /\ ShouldSkip(TagText(t), localTag[p], File(Artifact(t)))

\* C30: an invocation started with no marker file reads "no local version"
\* (the read does not end the script) and does not skip, whatever tag the
\* release has and whether or not LocalReplica exists.
C30_AbsentMarkerNeverSkips ==
  \A p \in Procs :
    (pc[p] # "idle" /\ ~TestPath(pre[p].marker)) =>
      /\ result[p].outcome # "skipped"
      /\ pc[p] = "skipCheck" => localTag[p] = <<>>
      /\ (pc[p] = "done" /\ net[p] = <<"meta">>) =>
           \/ result[p].outcome = "killed"
           \/ result[p].err \in {"remote", "asset"}

C30_Witness ==
  \E p \in Procs :
    /\ pc[p] = "download"
    /\ ~TestPath(pre[p].marker)
    /\ TestPath(pre[p].db)
    /\ localTag[p] = <<>>

\* C31: an invocation started with both -Owner and -Repo does not end in
\* the configuration error and its release query is addressed to exactly
\* that pair, whatever the remote URL is.
C31_ExplicitCoordinates ==
  \A p \in Procs :
    (pc[p] # "idle" /\ cfg[p].Owner # "" /\ cfg[p].Repo # "") =>
      /\ api[p] = <<cfg[p].Owner, cfg[p].Repo>>
      /\ result[p].err # "config"

C31_Witness ==
  \E p \in Procs :
    /\ Requested(p, "meta")
    /\ cfg[p].Owner = "alice"
    /\ cfg[p].Repo = "tool"
    /\ ParseGitRemote(cfg[p].url) = <<"yoona8030", "sencity_backend">>
    /\ api[p] = <<"alice", "tool">>

\* The repository name a URL spells: its last path segment without a
\* trailing ".git".
RepoName(u) ==
  CASE u.suffix = ".git" -> u.repo
    [] u.suffix = ".js.git" -> u.repo \o ".js"
    [] OTHER -> u.repo \o u.suffix

\* A URL of one of the forms https://host/owner/repo, .../owner/repo.git or
\* git@host:owner/repo.git, host being the release store's.
HasRepoPath(u) ==
  /\ u.host = "github.com"
  /\ u.sep \in {":", "/"}
  /\ u.owner # ""
  /\ u.repo # ""
  /\ u.suffix # "/"

\* C32: a run that takes its coordinates from the remote URL addresses its
\* query to exactly the owner and the repository name of a URL of the form
\* host/owner/repo[.git], and ends in the configuration error for every
\* other URL.
C32_RemoteParsing ==
  \A p \in Procs :
    (pc[p] # "idle" /\ cfg[p].Owner = "" /\ cfg[p].Repo = "") =>
      IF HasRepoPath(cfg[p].url)
      THEN /\ result[p].err # "config"
           /\ api[p] = <<cfg[p].url.owner, RepoName(cfg[p].url)>>
      ELSE result[p].err = "config"

\* The hook files an installer writes.
TargetSet(i) == {Targets(i)[n] : n \in 1..Len(Targets(i))}

Installed(i) == \A f \in TargetSet(i) : hookFiles[f] = Stub(i)

\* C33: an installer step changes hook files only by putting exactly the
\* installer's stub in one of its targets, whatever the file held before;
\* a run of install_hooks.ps1 that ends with exit code 0 leaves the stub in
\* every target; and a step of a run that finds the stub in every target
\* changes no hook file.
C33_IdempotentFullReplace ==
  [][ inst.pc = "write" =>
        /\ hookFiles' # hookFiles =>
              \E f \in TargetSet(inst.who) :
                hookFiles' = [hookFiles EXCEPT ![f] = Stub(inst.who)]
        /\ (inst.who = "bat" /\ inst'.pc = "done" /\ inst'.code = 0) =>
              \A f \in TargetSet("bat") : hookFiles'[f] = Stub("bat")
        /\ Installed(inst.who) => hookFiles' = hookFiles ]_vars

C33_Witness ==
  /\ inst.pc = "done"
  /\ inst.who = "bat"
  /\ inst.code = 0
  /\ Installed("bat")
  /\ Installed("sh")

\* C34: in a working copy without a repository root or without its hooks
\* folder, an installer run ends at once as a failure with a non-zero exit
\* code, never reaches its writes and changes no hook file.
C34_NoHookDirFails ==
  [][ (gitDir # "ok" /\ inst' # inst) =>
        /\ inst'.pc # "write"
        /\ inst'.pc = "done" => inst'.code # 0
        /\ hookFiles' = hookFiles
        /\ \A f \in HookFiles : hookFiles'[f] = NoHook ]_vars

C34_Witness ==
  /\ gitDir = "nohooks"
  /\ inst.pc = "done"
  /\ inst.who = "bat"
  /\ inst.code = 1
  /\ \A f \in HookFiles : hookFiles[f] = NoHook

\* C35: an authFetch call sends each request with the token the meta holds
\* at that moment; it starts one re-issue and sends the request a second
\* time exactly when the first response is 401, also when the re-issue
\* failed; it returns the first response when that is not 401 and the
\* second response otherwise; and it never sends more than twice.
C35_AuthFetchRetry ==
  [][ /\ Len(af'.sends) <= 2
      /\ af'.reissues = (IF af'.first = 401 THEN 1 ELSE 0)
      /\ Len(af'.sends) > Len(af.sends) =>
            af'.sends[Len(af'.sends)] = authHeaders(apiJwt')
      /\ af'.pc \in {"sent2", "done", "rejected"} =>
            Len(af'.sends) = (IF af'.first = 401 THEN 2 ELSE 1)
      /\ af'.pc = "done" =>
            af'.ret = (IF af'.first = 401 THEN af'.second ELSE af'.first)
    ]_vars

C35_Witness ==
  /\ af.pc = "done"
  /\ af.first = 401
  /\ af.reissues = 1
  /\ Len(af.sends) = 2
  /\ af.sends[1] # af.sends[2]
  /\ af.ret = 401

\* C36: a request through the shared axios instance is sent at most twice
\* and sets off at most one refresh-cookie call: a 401 answer to the
\* re-sent request ends the chain instead of starting another refresh.
C36_RetryAtMostOnce ==
  /\ ax.sends <= 2
  /\ ax.refreshes <= 1

\* The refresh timer the script holds is pending and set to 5 s or more.
TimerSet == \E t \in timers : t.id = refreshTimer /\ t.ms >= 5000

\* C37: handling a successful issue-token response starts no issue request
\* but leaves the next one to a timer of at least 5 seconds; at most one
\* refresh timer is pending at any time; and handling a failed issue
\* request starts no issue request and sets no timer.
C37_NoBackToBackIssue ==
  [][ /\ (\E tok \in IssuedTokens : IssueOk(tok)) =>
            (auto' = auto - 1 /\ TimerSet')
      /\ (\E tok \in IssuedTokens : AfIssueOk(tok)) =>
            (auto' = auto /\ TimerSet')
      /\ Cardinality(timers') <= 1
      /\ IssueFail => (auto' = auto - 1 /\ timers' = timers)
      /\ AfIssueFail => (auto' = auto /\ timers' = timers)
    ]_vars
====
